---- MODULE Spec2Model ----
(***************************************************************************)
(* Model of the webhook relay in src/app/app.js: the POST /webhook handler *)
(* (signature verification, envelope parsing, the sequenceMap correlation  *)
(* table with its WINDOW_MS rule, the Discord delivery) and the expiry     *)
(* callbacks it schedules with setTimeout.                                 *)
(*                                                                         *)
(* Node runs the handler's synchronous part, each timer callback and each  *)
(* continuation after `await fetch` as one uninterrupted step, so each is  *)
(* one action here.                                                        *)
(***************************************************************************)
EXTENDS Integers, Sequences, FiniteSets, TLC

(***************************************************************************)
(* Bounds of the model.                                                    *)
(***************************************************************************)
\* number of requests the server receives in a run
MaxRequests == 3

(***************************************************************************)
(* JavaScript values.                                                      *)
(***************************************************************************)
\* a property that is absent from the JSON payload reads as undefined
Undefined == "<undefined>"

\* the number NaN: what new Date(undefined).getTime() yields.  It is kept
\* apart from every millisecond value and every difference of two of them.
NaN == -1000000

WINDOW_MS == 1500

\* a - b on JavaScript numbers
NumSub(a, b) == IF a = NaN \/ b = NaN THEN NaN ELSE a - b

\* a >= b, a < b and a === b on JavaScript numbers: false when either is NaN
NumGe(a, b) == a # NaN /\ b # NaN /\ a >= b

NumLt(a, b) == a # NaN /\ b # NaN /\ a < b

NumStrictEq(a, b) == a # NaN /\ b # NaN /\ a = b

\* `${x}` in a template literal
TemplateStr(x) == IF x = Undefined THEN "undefined" ELSE x

(***************************************************************************)
(* Inputs: request bodies and signature headers.                           *)
(***************************************************************************)
EventNames == {"issue", Undefined}

ActionNames == {"updated", "created", Undefined}

EntityIds == {"7", "8", Undefined}

\* data.updated_at: an ISO date string denoting `ms`, or absent
UpdatedAts ==
  {[present |-> TRUE, ms |-> m] : m \in {0, WINDOW_MS - 1, WINDOW_MS}}
    \cup {[present |-> FALSE, ms |-> 0]}

\* the optional `activity` object: its field, its new_value and the
\* display_name of its actor, each of which may be absent
NoActivity ==
  [present |-> FALSE, field |-> Undefined, new_value |-> Undefined,
   actor |-> Undefined]

Activities ==
  {NoActivity,
   [present |-> TRUE, field |-> "state", new_value |-> "done", actor |-> "Ann"],
   [present |-> TRUE, field |-> "priority", new_value |-> "high",
    actor |-> Undefined],
   [present |-> TRUE, field |-> "state", new_value |-> Undefined,
    actor |-> Undefined]}

\* payloads with every envelope field present
WellFormed ==
  {[parses |-> TRUE, hasData |-> TRUE, event |-> "issue", action |-> a,
    id |-> i, updated_at |-> u, activity |-> c] :
      a \in {"updated", "created"}, i \in {"7", "8"},
      u \in {x \in UpdatedAts : x.present}, c \in Activities}

\* payloads that lack one envelope field, all for the entity "7"
LacksField ==
  {[parses |-> TRUE, hasData |-> TRUE, event |-> Undefined, action |-> "updated",
    id |-> "7", updated_at |-> [present |-> TRUE, ms |-> 0],
    activity |-> NoActivity],
   [parses |-> TRUE, hasData |-> TRUE, event |-> "issue", action |-> Undefined,
    id |-> "7", updated_at |-> [present |-> TRUE, ms |-> 0],
    activity |-> NoActivity],
   [parses |-> TRUE, hasData |-> TRUE, event |-> "issue", action |-> "updated",
    id |-> Undefined, updated_at |-> [present |-> TRUE, ms |-> 0],
    activity |-> NoActivity],
   [parses |-> TRUE, hasData |-> TRUE, event |-> "issue", action |-> "updated",
    id |-> "7", updated_at |-> [present |-> FALSE, ms |-> 0],
    activity |-> NoActivity]}

\* a payload without `data`, and a body that is not JSON
Unusable ==
  {[parses |-> TRUE, hasData |-> FALSE, event |-> "issue", action |-> "updated",
    id |-> Undefined, updated_at |-> [present |-> FALSE, ms |-> 0],
    activity |-> NoActivity],
   [parses |-> FALSE, hasData |-> FALSE, event |-> Undefined, action |-> Undefined,
    id |-> Undefined, updated_at |-> [present |-> FALSE, ms |-> 0],
    activity |-> NoActivity]}

Bodies == WellFormed \cup LacksField \cup Unusable


(***************************************************************************)
(* Signature verification (lines 58-77).                                   *)
(***************************************************************************)
\* one hexadecimal digit per envelope part
PartDigit(b) ==
  IF ~b.parses THEN 0 ELSE IF ~b.hasData THEN 1 ELSE 2

EventDigit(b) == IF b.event = Undefined THEN 0 ELSE 1

ActionDigit(b) ==
  IF b.action = Undefined THEN 0 ELSE IF b.action = "updated" THEN 1 ELSE 2

IdDigit(b) == IF b.id = Undefined THEN 0 ELSE IF b.id = "7" THEN 7 ELSE 8

DateDigit(b) ==
  IF ~b.updated_at.present THEN 0
  ELSE IF b.updated_at.ms = 0 THEN 1
  ELSE IF b.updated_at.ms = WINDOW_MS - 1 THEN 2 ELSE 3

ActivityDigit(b) ==
  IF ~b.activity.present THEN 0
  ELSE IF b.activity.field = "priority" THEN 1
  ELSE IF b.activity.new_value = "done" THEN 2 ELSE 3

\* createHmac("sha256", WebhookSecret).update(RequestBody).digest("hex"): a
\* string of hexadecimal digits, of one fixed length, that differs for
\* different bodies
HmacHex(b) ==
  <<PartDigit(b), EventDigit(b), ActionDigit(b), IdDigit(b), DateDigit(b),
    ActivityDigit(b)>>

\* the x-plane-signature header: absent, or a string
NoHeader == [present |-> FALSE, value |-> <<>>]

Header(s) == [present |-> TRUE, value |-> s]

\* a signature of the right length with its first digit changed
Tampered(s) == [s EXCEPT ![1] = (s[1] + 1) % 16]

\* the headers a client may present with body b: the right signature, and
\* (tried on the bodies without `activity`) no header, an empty one, a
\* signature of the right length and other content, a shorter and a longer one
HeadersFor(b) ==
  IF b.activity.present THEN {Header(HmacHex(b))}
  ELSE {NoHeader, Header(<<>>), Header(HmacHex(b)),
        Header(Tampered(HmacHex(b))), Header(Tail(HmacHex(b))),
        Header(Append(HmacHex(b), 0))}

Requests ==
  UNION {{[sig |-> h, body |-> b] : h \in HeadersFor(b)} : b \in Bodies}

\* Buffer.from(s, "utf-8").length for a string of hexadecimal digits
ByteLength(s) == Len(s)

\* crypto.timingSafeEqual: throws a RangeError on buffers of unequal length
TimingSafeEqual(a, b) ==
  IF ByteLength(a) # ByteLength(b) THEN "throws"
  ELSE IF a = b THEN "equal" ELSE "differ"

\* `!ProvidedSignature`: an absent header and the empty string are falsy
Falsy(h) == ~h.present \/ h.value = <<>>

\* as Verify, without the length comparison of line 73
VerifyWithoutLengthCheck(req) ==
  IF Falsy(req.sig) THEN "unauthorized"
  ELSE IF TimingSafeEqual(HmacHex(req.body), req.sig.value) = "throws"
    THEN "fault"
  ELSE IF TimingSafeEqual(HmacHex(req.body), req.sig.value) = "differ"
    THEN "forbidden"
  ELSE "authentic"

\* as Verify, with the comparison of line 74 not negated
VerifyInverted(req) ==
  IF Falsy(req.sig) THEN "unauthorized"
  ELSE IF ByteLength(HmacHex(req.body)) # ByteLength(req.sig.value)
    THEN "forbidden"
  ELSE IF TimingSafeEqual(HmacHex(req.body), req.sig.value) = "equal"
    THEN "forbidden"
  ELSE "authentic"

\* lines 61-77: the outcome of the two checks before the envelope is parsed
Verify(req) ==
  IF Falsy(req.sig) THEN "unauthorized"
  ELSE IF ByteLength(HmacHex(req.body)) # ByteLength(req.sig.value)
    THEN "forbidden"
  ELSE IF TimingSafeEqual(HmacHex(req.body), req.sig.value) = "throws"
    THEN "fault"
  ELSE IF TimingSafeEqual(HmacHex(req.body), req.sig.value) = "differ"
    THEN "forbidden"
  ELSE "authentic"

\* the status sent by the early returns of lines 62 and 76 (500 from the catch
\* block if the comparison throws)
VerdictStatus(v) ==
  IF v = "unauthorized" THEN 401
  ELSE IF v = "forbidden" THEN 403
  ELSE IF v = "fault" THEN 500 ELSE 0

\* as ReachesCorrelator, with the `return` of line 76 missing
ReachesCorrelatorPast401(v) == v # "unauthorized"

\* the handler goes on to parse the envelope only past both early returns
ReachesCorrelator(v) == v = "authentic"

(***************************************************************************)
(* The envelope and the correlation rule (lines 79-106).                   *)
(***************************************************************************)
\* JSON.parse, the destructuring and `data.updated_at` throw (line 79-82)
ParseThrows(b) == ~b.parses \/ ~b.hasData

\* new Date(data.updated_at).getTime()
DateGetTime(u) == IF u.present THEN u.ms ELSE NaN

\* `${event}:${entityId}`
SequenceKey(event, id) == <<TemplateStr(event), TemplateStr(id)>>

Keys == {SequenceKey(e, i) : e \in EventNames, i \in EntityIds}

\* Map.prototype.set and Map.prototype.delete
MapSet(m, k, v) == [x \in DOMAIN m \cup {k} |-> IF x = k THEN v ELSE m[x]]

\* as MapDelete, removing every entry (Map.prototype.clear)
MapClear(m, k) == [x \in {} |-> m[x]]

MapDelete(m, k) == [x \in DOMAIN m \ {k} |-> m[x]]

\* timeDifference >= 0 && timeDifference < WINDOW_MS
InWindow(d) == NumGe(d, 0) /\ NumLt(d, WINDOW_MS)

\* the branch the handler takes for an event with key k and timestamp t
Decide(m, k, t) ==
  IF k \notin DOMAIN m THEN "Cached"
  ELSE IF InWindow(NumSub(t, m[k].timestamp)) THEN "Completed"
  ELSE "Reset"

\* the record written by lines 89-92 and 153-156
NewRecord(t, a) == [timestamp |-> t, action |-> a]

\* event.toUpperCase() / action.toUpperCase() on undefined throw (line 118)
EmbedThrows(b) == b.event = Undefined \/ b.action = Undefined

(***************************************************************************)
(* The embed sent to Discord (lines 109-138).  A string built from parts   *)
(* is the sequence of its parts.                                           *)
(***************************************************************************)
\* String.prototype.toUpperCase
ToUpperCase(x) ==
  CASE x = "issue" -> "ISSUE"
    [] x = "updated" -> "UPDATED"
    [] x = "created" -> "CREATED"
    [] x = "done" -> "DONE"
    [] x = "high" -> "HIGH"
    [] x = "Unknown" -> "UNKNOWN"
    [] OTHER -> x

\* x ?? y
Coalesce(x, y) == IF x = Undefined THEN y ELSE x

\* x || y on strings
OrElse(x, y) == IF x = Undefined \/ x = "" THEN y ELSE x

\* data.name: the entity "7" has a name, the entity "8" has none
DataName(b) == IF b.id = "7" THEN "Fix login" ELSE Undefined

\* line 109: activity?.field ?? "No field data"
FieldType(b) == Coalesce(b.activity.field, "No field data")

\* as Content, without the sentence of lines 111-114
ContentRawField(b) == <<FieldType(b)>>

\* lines 110-115
Content(b) ==
  IF FieldType(b) = "state"
    THEN <<"Issue is now in ",
           ToUpperCase(Coalesce(b.activity.new_value, "Unknown"))>>
    ELSE <<FieldType(b)>>

\* as Embed, with the title taken from the action stored in the record
EmbedStoredAction(b, existingRecord) ==
  [title |-> <<ToUpperCase(b.event), " ", ToUpperCase(existingRecord.action)>>,
   description |-> <<"**Entity:** ", OrElse(DataName(b), b.id)>>,
   type |-> FieldType(b),
   by |-> Coalesce(b.activity.actor, "Unknown User"),
   content |-> Content(b)]

\* lines 117-138, without the colour and the wall-clock timestamp; the
\* record found in the table is in scope and is not used
Embed(b, existingRecord) ==
  [title |-> <<ToUpperCase(b.event), " ", ToUpperCase(b.action)>>,
   description |-> <<"**Entity:** ", OrElse(DataName(b), b.id)>>,
   type |-> FieldType(b),
   by |-> Coalesce(b.activity.actor, "Unknown User"),
   content |-> Content(b)]

\* no embed was built
NoEmbed ==
  [title |-> <<>>, description |-> <<>>, type |-> "", by |-> "",
   content |-> <<>>]


(***************************************************************************)
(* State.                                                                  *)
(***************************************************************************)
VARIABLES
  sequenceMap,  \* the Map of line 30: sequence key -> [timestamp, action]
  timers,       \* the setTimeout callbacks not yet run, in scheduling order
  pending,      \* the handlers suspended at `await fetch` (line 140)
  fetches,      \* number of fetch calls made to DiscordWebhookUrl
  nextId,       \* number of requests received so far
  responses,    \* request -> number of responses sent for it (res.send)
  recId,        \* history: sequence key -> the request that wrote its record
  consumed,     \* history: the records deleted by the match branch, in order
  overwritten,  \* history: the records overwritten by the reset branch
  tally,        \* history: sequence key -> events handled, Completed decisions
  shadow,       \* the table of a second run, see AltAction
  last          \* history: what the last step did

vars ==
  <<sequenceMap, timers, pending, fetches, nextId, responses, recId, consumed,
    overwritten, tally, shadow, last>>

NoKey == <<"", "">>

\* what a request presents as its signature, against the HMAC of its body:
\* whether the header is there, its length and the expected length, and
\* whether the two strings are equal
Presented(req) ==
  [present |-> req.sig.present, length |-> Len(req.sig.value),
   expected |-> Len(HmacHex(req.body)),
   equal |-> req.sig.value = HmacHex(req.body)]

NoSignature == [present |-> FALSE, length |-> 0, expected |-> 0, equal |-> FALSE]

\* `last` after a timer callback or a continuation.  src: the request whose
\* record the step is about (the one that scheduled the timer, the one whose
\* record the handler matched); live: the request that wrote the record the
\* step found under `key`, 0 if it found none
Step(op, rid, status, key, src, live, removed) ==
  [op |-> op, rid |-> rid, status |-> status, verdict |-> "none",
   decision |-> "none", key |-> key, timestamp |-> NaN, action |-> Undefined,
   lacks |-> FALSE, fetched |-> FALSE, src |-> src, live |-> live,
   existing |-> NaN, stored |-> Undefined, removed |-> removed,
   sig |-> NoSignature,
   message |-> NoEmbed, activity |-> NoActivity, shadowDecision |-> "none",
   shadowMessage |-> NoEmbed]

\* `last` after a handler that returned before it read the table
Returned(rid, status, verdict, req) ==
  [op |-> "post", rid |-> rid, status |-> status, verdict |-> verdict,
   decision |-> "none", key |-> NoKey, timestamp |-> NaN, action |-> Undefined,
   lacks |-> req.body \notin WellFormed, fetched |-> FALSE, src |-> 0,
   live |-> 0, existing |-> NaN, stored |-> Undefined, removed |-> FALSE,
   sig |-> Presented(req),
   message |-> NoEmbed, activity |-> NoActivity,
   shadowDecision |-> "none", shadowMessage |-> NoEmbed]

\* `last` after the synchronous part of a handler that read the table; status
\* 0: no response yet; existing: existingRecord.timestamp; msg: the embed
\* handed to fetch; stored: existingRecord.action in the match branch;
\* activity: the `activity` of the payload the embed was
\* built from; d2, m2: the decision and the embed of the second run
Handled(rid, status, decision, key, req, live, existing, stored, msg, d2, m2) ==
  [op |-> "post", rid |-> rid, status |-> status, verdict |-> "authentic",
   decision |-> decision, key |-> key,
   timestamp |-> DateGetTime(req.body.updated_at), action |-> req.body.action,
   lacks |-> req.body \notin WellFormed, fetched |-> msg # NoEmbed,
   src |-> IF decision = "Completed" THEN live ELSE 0, live |-> live,
   existing |-> existing, stored |-> stored, removed |-> FALSE,
   sig |-> Presented(req), message |-> msg,
   activity |-> IF msg # NoEmbed THEN req.body.activity ELSE NoActivity,
   shadowDecision |-> d2, shadowMessage |-> m2]

Init ==
  /\ sequenceMap = <<>>
  /\ timers = <<>>
  /\ pending = {}
  /\ fetches = 0
  /\ nextId = 0
  /\ responses = <<>>
  /\ recId = <<>>
  /\ consumed = <<>>
  /\ overwritten = {}
  /\ tally = <<>>
  /\ shadow = <<>>
  /\ last = Step("init", 0, 0, NoKey, 0, 0, FALSE)

(***************************************************************************)
(* The effects of the three branches on the table and on the timers.       *)
(***************************************************************************)
\* lines 89-92
AfterCached(m, k, t, a) == MapSet(m, k, NewRecord(t, a))

\* lines 94-99: the callback closes over sequenceKey and incomingTimestamp
\* (src, the request that scheduled it, is history)
Scheduled(q, k, t, rid) ==
  Append(q, [key |-> k, incomingTimestamp |-> t, src |-> rid])

\* as AfterMatch, with the delete left until after the delivery
AfterMatchKeeps(m, k) == m

\* line 107
AfterMatch(m, k) == MapDelete(m, k)

\* as AfterReset, updating the timestamp of the record in place
AfterResetInPlace(m, k, t, a) ==
  MapSet(m, k, [timestamp |-> t, action |-> m[k].action])

\* lines 153-156
AfterReset(m, k, t, a) == MapSet(m, k, NewRecord(t, a))

\* the reset branch calls setTimeout nowhere
ScheduledOnReset(q, k, t, rid) == q

\* the status of the response: the first one sent
Sent(v, s) == IF VerdictStatus(v) # 0 THEN VerdictStatus(v) ELSE s

\* line 96: record && record.timestamp === incomingTimestamp
ExpiryRemoves(m, tm) ==
  tm.key \in DOMAIN m /\ NumStrictEq(m[tm.key].timestamp, tm.incomingTimestamp)

\* as AfterCatch, putting a record for the key back after a failed delivery
AfterCatchRestores(m, p) == MapSet(m, p.key, NewRecord(0, "updated"))

\* the catch block (lines 159-162) only logs and responds
AfterCatch(m, p) == m

(***************************************************************************)
(* The second run: it receives the same requests, except that an event it  *)
(* caches carries the other action label.  It shares the timers, which     *)
(* hold keys and timestamps only.                                          *)
(***************************************************************************)
AltAction(a) ==
  IF a = "updated" THEN "created" ELSE IF a = "created" THEN "updated" ELSE a

ShadowAfter(m, k, t, a) ==
  IF Decide(m, k, t) = "Cached" THEN AfterCached(m, k, t, AltAction(a))
  ELSE IF Decide(m, k, t) = "Completed" THEN AfterMatch(m, k)
  ELSE AfterReset(m, k, t, AltAction(a))

ShadowMessage(m, k, t, b) ==
  IF Decide(m, k, t) = "Completed" /\ ~EmbedThrows(b)
    THEN Embed(b, m[k]) ELSE NoEmbed

\* one more event handled for key k, Completed or not
Tallied(f, k, completed) ==
  LET old == IF k \in DOMAIN f THEN f[k] ELSE [handled |-> 0, completed |-> 0]
  IN MapSet(f, k, [handled |-> old.handled + 1,
                   completed |-> old.completed + (IF completed THEN 1 ELSE 0)])

\* the number of res.send calls of a handler whose verification gave v and
\* whose later path, if it ran, sent status s (0: none yet)
SendCount(v, ran, s) ==
  (IF VerdictStatus(v) # 0 THEN 1 ELSE 0) + (IF ran /\ s # 0 THEN 1 ELSE 0)

(***************************************************************************)
(* POST /webhook, up to its first suspension or its response (lines 56-158)*)
(***************************************************************************)
PostWebhook(req) ==
  LET rid == nextId + 1
      v == Verify(req)
      b == req.body
      t == DateGetTime(b.updated_at)
      k == SequenceKey(b.event, b.id)
      d == Decide(sequenceMap, k, t)
      d2 == Decide(shadow, k, t)
      m2 == ShadowMessage(shadow, k, t, b)
  IN
  /\ nextId < MaxRequests
  /\ nextId' = rid
  /\ IF ~ReachesCorrelator(v) THEN
       /\ last' = Returned(rid, VerdictStatus(v), v, req)
       /\ responses' = Append(responses, SendCount(v, FALSE, 0))
       /\ UNCHANGED <<sequenceMap, timers, pending, fetches, recId, consumed,
                      overwritten, tally, shadow>>
     ELSE IF ParseThrows(b) THEN
       /\ last' = Returned(rid, Sent(v, 500), v, req)
       /\ responses' = Append(responses, SendCount(v, TRUE, 500))
       /\ UNCHANGED <<sequenceMap, timers, pending, fetches, recId, consumed,
                      overwritten, tally, shadow>>
     ELSE
       /\ shadow' = ShadowAfter(shadow, k, t, b.action)
       /\ tally' = Tallied(tally, k, d = "Completed")
       /\ IF d = "Cached" THEN
            /\ sequenceMap' = AfterCached(sequenceMap, k, t, b.action)
            /\ timers' = Scheduled(timers, k, t, rid)
            /\ recId' = MapSet(recId, k, rid)
            /\ last' = Handled(rid, Sent(v, 200), d, k, req, 0, NaN, Undefined,
                               NoEmbed, d2, m2)
            /\ responses' = Append(responses, SendCount(v, TRUE, 200))
            /\ UNCHANGED <<pending, fetches, consumed, overwritten>>
          ELSE IF d = "Completed" THEN
            /\ sequenceMap' = AfterMatch(sequenceMap, k)
            /\ recId' = [x \in DOMAIN sequenceMap' |-> recId[x]]
            /\ consumed' = Append(consumed, recId[k])
            /\ IF EmbedThrows(b) THEN
                 /\ last' = Handled(rid, Sent(v, 500), d, k, req, recId[k],
                                    sequenceMap[k].timestamp,
                                    sequenceMap[k].action, NoEmbed, d2, m2)
                 /\ responses' = Append(responses, SendCount(v, TRUE, 500))
                 /\ UNCHANGED <<pending, fetches>>
               ELSE
                 /\ fetches' = fetches + 1
                 /\ pending' = pending \cup
                      {[rid |-> rid, key |-> k, matched |-> recId[k]]}
                 /\ last' = Handled(rid, Sent(v, 0), d, k, req, recId[k],
                                    sequenceMap[k].timestamp,
                                    sequenceMap[k].action,
                                    Embed(b, sequenceMap[k]), d2, m2)
                 /\ responses' = Append(responses, SendCount(v, TRUE, 0))
            /\ UNCHANGED <<timers, overwritten>>
          ELSE
            /\ sequenceMap' = AfterReset(sequenceMap, k, t, b.action)
            /\ timers' = ScheduledOnReset(timers, k, t, rid)
            /\ recId' = MapSet(recId, k, rid)
            /\ overwritten' = overwritten \cup {recId[k]}
            /\ last' = Handled(rid, Sent(v, 200), d, k, req, recId[k],
                               sequenceMap[k].timestamp, Undefined, NoEmbed,
                               d2, m2)
            /\ responses' = Append(responses, SendCount(v, TRUE, 200))
            /\ UNCHANGED <<pending, fetches, consumed>>

(***************************************************************************)
(* The continuation of a handler after `await fetch` (lines 146-162).      *)
(***************************************************************************)
\* discordResponse.ok: "Sequence complete"
DiscordOk(p) ==
  /\ p \in pending
  /\ pending' = pending \ {p}
  /\ responses' = [responses EXCEPT ![p.rid] = @ + 1]
  /\ last' = Step("ok", p.rid, 200, p.key, p.matched, 0, FALSE)
  /\ UNCHANGED <<sequenceMap, timers, fetches, nextId, recId, consumed,
                 overwritten, tally, shadow>>

\* !discordResponse.ok: the handler throws, the catch block answers 500
DiscordNotOk(p) ==
  /\ p \in pending
  /\ pending' = pending \ {p}
  /\ sequenceMap' = AfterCatch(sequenceMap, p)
  /\ recId' = [x \in DOMAIN sequenceMap' |->
                 IF x \in DOMAIN recId THEN recId[x] ELSE p.matched]
  /\ responses' = [responses EXCEPT ![p.rid] = @ + 1]
  /\ last' = Step("notok", p.rid, 500, p.key, p.matched, 0, FALSE)
  /\ UNCHANGED <<timers, fetches, nextId, consumed, overwritten, tally,
                 shadow>>

\* fetch rejects (the sink is unreachable): the catch block answers 500
FetchRejects(p) ==
  /\ p \in pending
  /\ pending' = pending \ {p}
  /\ responses' = [responses EXCEPT ![p.rid] = @ + 1]
  /\ last' = Step("rejected", p.rid, 500, p.key, p.matched, 0, FALSE)
  /\ UNCHANGED <<sequenceMap, timers, fetches, nextId, recId, consumed,
                 overwritten, tally, shadow>>

(***************************************************************************)
(* The setTimeout callback (lines 94-99).  Every timer has the same delay, *)
(* so the callbacks run in the order they were scheduled.                  *)
(***************************************************************************)
ExpiryFires ==
  /\ timers # <<>>
  /\ LET tm == Head(timers) IN
       /\ sequenceMap' = IF ExpiryRemoves(sequenceMap, tm)
                           THEN MapDelete(sequenceMap, tm.key)
                           ELSE sequenceMap
       /\ shadow' = IF ExpiryRemoves(shadow, tm)
                      THEN MapDelete(shadow, tm.key)
                      ELSE shadow
       /\ recId' = [x \in DOMAIN sequenceMap' |-> recId[x]]
       /\ last' = Step("expiry", 0, 0, tm.key, tm.src,
                       IF tm.key \in DOMAIN recId THEN recId[tm.key] ELSE 0,
                       ExpiryRemoves(sequenceMap, tm))
  /\ timers' = Tail(timers)
  /\ UNCHANGED <<pending, fetches, nextId, responses, consumed, overwritten,
                 tally>>

Next ==
  \/ \E req \in Requests : PostWebhook(req)
  \/ \E p \in pending : DiscordOk(p)
  \/ \E p \in pending : DiscordNotOk(p)
  \/ \E p \in pending : FetchRejects(p)
  \/ ExpiryFires

Spec == Init /\ [][Next]_vars

\* the same process when every request carries a complete envelope
CompleteRequests == {r \in Requests : r.body \in WellFormed}

NextComplete ==
  \/ \E req \in CompleteRequests : PostWebhook(req)
  \/ \E p \in pending : DiscordOk(p)
  \/ \E p \in pending : DiscordNotOk(p)
  \/ \E p \in pending : FetchRejects(p)
  \/ ExpiryFires

SpecComplete == Init /\ [][NextComplete]_vars

\* the promise of an `await fetch` (line 140) settles: the sink answers, or
\* the call fails
Settles ==
  \E p \in pending : DiscordOk(p) \/ DiscordNotOk(p) \/ FetchRejects(p)

\* the same process when the calls to the sink eventually settle
FairSpec == Spec /\ WF_vars(Settles)


(***************************************************************************)
(* Properties.  `last` names the step that led to the state, so a state    *)
(* predicate over `last` speaks of every step of every run.                *)
(***************************************************************************)
\* the last step ran the correlation rule on an event
Observed == last.op = "post" /\ last.decision # "none"

\* the last step found a record under the event's key
HadRecord == last.live # 0

\* C1: for every authenticated event with a timestamp t the decision is
\* Cached iff no record exists for its key, Completed iff a record exists and
\* 0 <= t - record.timestamp < 1500, and Reset iff a record exists and the
\* difference is negative or >= 1500.
C1_DecisionRule ==
  (Observed /\ last.timestamp # NaN) =>
    LET diff == NumSub(last.timestamp, last.existing) IN
      /\ last.decision = "Cached" <=> ~HadRecord
      /\ last.decision = "Completed" <=>
           (HadRecord /\ NumGe(diff, 0) /\ NumLt(diff, 1500))
      /\ last.decision = "Reset" <=>
           (HadRecord /\ (NumLt(diff, 0) \/ NumGe(diff, 1500)))

\* C2: the table holds at most one record per sequence key; right after a
\* Completed decision for key K it holds no record for K, and right after a
\* Cached or Reset decision it holds for K exactly the timestamp and action of
\* the event just observed.
C2_TableAfterDecision ==
  /\ DOMAIN sequenceMap \subseteq Keys
  /\ (Observed /\ last.decision = "Completed") =>
       last.key \notin DOMAIN sequenceMap
  /\ (Observed /\ last.decision \in {"Cached", "Reset"}) =>
       /\ last.key \in DOMAIN sequenceMap
       /\ sequenceMap[last.key] =
            [timestamp |-> last.timestamp, action |-> last.action]

\* C2 witness: a Reset has just overwritten a record that had another
\* timestamp.
C2_Witness ==
  /\ Observed /\ last.decision = "Reset"
  /\ last.timestamp # NaN /\ last.existing # NaN
  /\ last.key \in DOMAIN sequenceMap

\* C3: the number of deliveries attempted equals the number of Completed
\* decisions, and a handler that did not decide Completed attempts none.
C3_OneDeliveryPerCompletion ==
  /\ fetches = Len(consumed)
  /\ (last.op = "post" /\ last.decision # "Completed") => ~last.fetched

\* C4: when the timer of a cached event fires and no other event for the key
\* was handled since (the record found is the one the event wrote), the
\* record is removed and an observe for the key, whatever its timestamp, is
\* then decided Cached.
C4_ExpiryRemovesUntouched ==
  (last.op = "expiry" /\ last.live # 0 /\ last.live = last.src) =>
    /\ last.removed
    /\ \A u \in UpdatedAts :
         Decide(sequenceMap, last.key, DateGetTime(u)) = "Cached"

\* C5: an expiry callback removes a record only if that record is the one
\* whose insertion scheduled the callback.
C5_ExpiryOnlyOwnRecord ==
  (last.op = "expiry" /\ last.removed) => last.live = last.src

\* C6: at every instant each record has a scheduled expiry callback that
\* will remove it unless the record is superseded first.
C6_EveryRecordHasExpiry ==
  \A k \in DOMAIN sequenceMap :
    \E i \in 1..Len(timers) : ExpiryRemoves(sequenceMap, timers[i])
                                /\ timers[i].key = k


\* C7: while a handler is suspended on its delivery the record it matched is
\* not in the table; an event for the same key handled meanwhile finds no
\* record and is decided Cached, or finds a record written after the match;
\* and no record is matched twice.
C7_MatchedRecordGone ==
  /\ \A p \in pending : \A k \in DOMAIN recId : recId[k] # p.matched
  /\ \A i, j \in 1..Len(consumed) : consumed[i] = consumed[j] => i = j
  /\ \A p \in pending :
       (Observed /\ last.key = p.key /\ last.rid # p.rid) =>
         \/ ~HadRecord /\ last.decision = "Cached"
         \/ last.live > p.rid

\* C7 witness: an event is decided Cached while a handler that matched a
\* record of the same key is still suspended.
C7_Witness ==
  \E p \in pending :
    Observed /\ last.key = p.key /\ last.rid # p.rid /\ last.decision = "Cached"

\* C8: when the sink answers with a non-success status the caller gets 500,
\* no further delivery is made, the matched record is not back in the table
\* and no record of the table changes.
C8_FailedDeliveryLeavesTable ==
  [][last'.op = "notok" =>
       /\ last'.status = 500
       /\ fetches' = fetches
       /\ \A k \in DOMAIN recId' : recId'[k] # last'.src
       /\ sequenceMap' = sequenceMap
       /\ timers' = timers]_vars

\* C8 witness: a delivery has just failed while the table holds a record of
\* another key.
C8_Witness ==
  last.op = "notok" /\ \E k \in DOMAIN sequenceMap : k # last.key

\* C9: a request answered 401 or 403 leaves the table, the timers and the
\* deliveries as they were.
C9_RejectionTouchesNothing ==
  [][(last'.op = "post" /\ last'.status \in {401, 403}) =>
       UNCHANGED <<sequenceMap, timers, fetches, pending>>]_vars

\* C9 witness: a request has just been answered 403 while a record and its
\* timer are pending.
C9_Witness ==
  /\ last.op = "post" /\ last.status = 403
  /\ sequenceMap # <<>> /\ timers # <<>>

\* C10: an authenticated payload that does not parse or lacks one of event,
\* action, data.id, data.updated_at is answered 500 and no delivery is
\* attempted for it.
C10_MalformedAnswered500 ==
  (last.op = "post" /\ last.verdict = "authentic" /\ last.lacks) =>
    last.status = 500 /\ ~last.fetched


(***************************************************************************)
(* The Correlator as one sequential object: observe and the expiry check   *)
(* as single table transformations, written out on their own.              *)
(***************************************************************************)
ObserveSeq(m, k, t, a) ==
  IF k \notin DOMAIN m
    THEN [x \in DOMAIN m \cup {k} |->
            IF x = k THEN [timestamp |-> t, action |-> a] ELSE m[x]]
  ELSE IF NumGe(NumSub(t, m[k].timestamp), 0)
            /\ NumLt(NumSub(t, m[k].timestamp), 1500)
    THEN [x \in DOMAIN m \ {k} |-> m[x]]
  ELSE [m EXCEPT ![k] = [timestamp |-> t, action |-> a]]

ExpireSeq(m, k, t) ==
  IF k \in DOMAIN m /\ NumStrictEq(m[k].timestamp, t)
    THEN [x \in DOMAIN m \ {k} |-> m[x]]
    ELSE m

\* C11: requests are handled in the order they are accepted, and every step
\* changes the table as one step of the sequential Correlator does: a handler
\* that reaches the table applies observe to the table as it stood when the
\* request was accepted, a timer callback applies the expiry check, and the
\* continuation after the delivery (like a handler that returned early)
\* leaves the table alone.
C11_AtomicObserve ==
  [][/\ last'.op = "post" => last'.rid = nextId + 1 /\ nextId' = nextId + 1
     /\ (last'.op = "post" /\ last'.decision # "none") =>
          sequenceMap' = ObserveSeq(sequenceMap, last'.key, last'.timestamp,
                                    last'.action)
     /\ (last'.op = "post" /\ last'.decision = "none") =>
          sequenceMap' = sequenceMap
     /\ last'.op \in {"ok", "notok", "rejected"} => sequenceMap' = sequenceMap
     /\ last'.op = "expiry" =>
          sequenceMap' = ExpireSeq(sequenceMap, Head(timers).key,
                                   Head(timers).incomingTimestamp)]_vars

\* C11 witness: an event has been observed while another handler is suspended
\* on its delivery and a timer is waiting.
C11_Witness ==
  Observed /\ pending # {} /\ timers # <<>>


\* C12: when the timer scheduled for a record that a Reset has overwritten
\* fires, it leaves the table unchanged.
C12_StaleTimerNoOp ==
  (last.op = "expiry" /\ last.src \in overwritten) => ~last.removed


\* the last request presented a signature (a header that is not empty)
SignaturePresented == last.sig.present /\ last.sig.length > 0

\* the last request reached the Correlator: its handler read the table
ReachedCorrelator == last.op = "post" /\ last.decision # "none"

\* C13 as stated: a request reaches the Correlator if and only if a signature
\* is presented and equals the HMAC of its body; without a presented
\* signature it is answered 401, with a differing one 403.
C13_ReachesIffSigned ==
  last.op = "post" =>
    /\ ReachedCorrelator <=> (SignaturePresented /\ last.sig.equal)
    /\ ~SignaturePresented => last.status = 401
    /\ (SignaturePresented /\ ~last.sig.equal) => last.status = 403

\* C13 amended: a request passes verification if and only if a signature is
\* presented and equals the HMAC of its body, and it then reaches the
\* Correlator unless its body is not JSON or has no `data` (answered 500);
\* without a presented signature (no header, or an empty one) it is answered
\* 401, with one that differs in length or content 403.
C13_VerifiedIffSigned ==
  last.op = "post" =>
    /\ last.verdict = "authentic" <=> (SignaturePresented /\ last.sig.equal)
    /\ ReachedCorrelator => last.verdict = "authentic"
    /\ (last.verdict = "authentic" /\ ~ReachedCorrelator) =>
         last.lacks /\ last.status = 500
    /\ ~SignaturePresented => last.status = 401
    /\ (SignaturePresented /\ ~last.sig.equal) => last.status = 403

\* C13 witness: a correctly signed request whose body is not a usable
\* envelope has just been answered without reaching the Correlator.
C13_Witness ==
  /\ last.op = "post" /\ SignaturePresented /\ last.sig.equal
  /\ ~ReachedCorrelator /\ last.status = 500

\* C14: a presented signature whose length differs from the expected one is
\* rejected with 403, and the comparator never faults.
C14_LengthMismatchRejected ==
  last.op = "post" =>
    /\ (SignaturePresented /\ last.sig.length # last.sig.expected) =>
         last.status = 403 /\ last.verdict = "forbidden"
    /\ last.verdict # "fault"

\* C14 witness: a request whose signature is longer than the expected one has
\* just been answered.
C14_Witness ==
  last.op = "post" /\ last.sig.present /\ last.sig.length > last.sig.expected


\* the last step completed a pair and handed an outbound message to fetch
CompletedPair ==
  last.op = "post" /\ last.decision = "Completed" /\ last.fetched

\* C15 as stated: for every Completed pair the content line is "Issue is now
\* in <new value upper-cased>" exactly when the completing event's activity
\* field is "state", and the raw field name otherwise; the byline is the
\* actor's display name, or "Unknown User" when the actor is absent.
C15_ContentFollowsField ==
  CompletedPair =>
    /\ last.activity.field = "state" =>
         last.message.content =
           <<"Issue is now in ", ToUpperCase(last.activity.new_value)>>
    /\ last.activity.field # "state" =>
         last.message.content = <<last.activity.field>>
    /\ last.message.by =
         IF last.activity.actor = Undefined THEN "Unknown User"
         ELSE last.activity.actor

\* C15 amended: for every Completed pair the content line is "Issue is now in
\* <new value upper-cased>" exactly when the completing event's activity field
\* is "state", with "UNKNOWN" for a new value that is absent; otherwise it is
\* the raw field name, or "No field data" when the event has no activity or
\* no field; the byline is the actor's display name, or "Unknown User" when
\* the actor is absent.
C15_ContentWithFallbacks ==
  CompletedPair =>
    /\ last.activity.field = "state" =>
         last.message.content =
           <<"Issue is now in ",
             IF last.activity.new_value = Undefined THEN "UNKNOWN"
             ELSE ToUpperCase(last.activity.new_value)>>
    /\ last.activity.field # "state" =>
         last.message.content =
           <<IF last.activity.field = Undefined THEN "No field data"
             ELSE last.activity.field>>
    /\ last.message.by =
         IF last.activity.actor = Undefined THEN "Unknown User"
         ELSE last.activity.actor

\* C15 witness: a pair has just been completed by an event whose activity is
\* a change of the "state" field to "done".
C15_Witness ==
  /\ CompletedPair /\ last.activity.field = "state"
  /\ last.activity.new_value = "done"
  /\ last.message.content = <<"Issue is now in ", "DONE">>


\* key k has the same record, or none, in the tables m and n
SameEntry(m, n, k) ==
  /\ k \in DOMAIN m <=> k \in DOMAIN n
  /\ k \in DOMAIN m \cap DOMAIN n => m[k] = n[k]

\* C16: handling an event for key K, whatever its decision or failure, and
\* firing an expiry timer scheduled for K leave the record of every key other
\* than K unchanged.
C16_OtherKeysUnchanged ==
  [][\A k \in DOMAIN sequenceMap \cup DOMAIN sequenceMap' :
       k # last'.key => SameEntry(sequenceMap, sequenceMap', k)]_vars

\* C16 witness: a pair has just been completed, or a timer has just removed a
\* record, while another key has a record.
C16_Witness ==
  /\ \/ last.op = "post" /\ last.decision = "Completed"
     \/ last.op = "expiry" /\ last.removed
  /\ \E k \in DOMAIN sequenceMap : k # last.key


\* C17: for each key the number of Completed decisions is at most half the
\* number of authenticated events handled for it: every Completed decision
\* consumes the record of a distinct earlier event, and the completing event
\* leaves no record behind.
C17_CompletedAtMostHalf ==
  /\ \A k \in DOMAIN tally : 2 * tally[k].completed <= tally[k].handled
  /\ \A i, j \in 1..Len(consumed) :
       i # j => consumed[i] # consumed[j]
  /\ (last.op = "post" /\ last.decision = "Completed") =>
       /\ last.src \in 1..(last.rid - 1)
       /\ consumed[Len(consumed)] = last.src
       /\ last.key \notin DOMAIN sequenceMap

\* C17 witness: three events have been handled for one key, one of them with
\* the decision Completed.
C17_Witness ==
  \E k \in DOMAIN tally : tally[k].handled = 3 /\ tally[k].completed = 1


\* the second run has a record for the same keys, with the same timestamps
\* and the other action label
SameRecords ==
  /\ DOMAIN shadow = DOMAIN sequenceMap
  /\ \A k \in DOMAIN sequenceMap :
       /\ shadow[k].timestamp = sequenceMap[k].timestamp
       /\ shadow[k].action = AltAction(sequenceMap[k].action)

\* C18: two runs that differ only in the action label of the events they
\* cache take the same decisions and send the same outbound message: the
\* message of a Completed pair depends on the completing event only.
C18_StoredActionNotRead ==
  /\ SameRecords
  /\ last.op = "post" =>
       /\ last.shadowDecision = last.decision
       /\ last.shadowMessage = last.message

\* C18 witness: a pair has just been completed and its message handed to
\* fetch, the record it consumed holding "created" in one run and "updated"
\* in the other.
C18_Witness ==
  /\ CompletedPair /\ last.shadowDecision = "Completed"
  /\ last.stored = "created" /\ AltAction(last.stored) = "updated"
  /\ last.message # NoEmbed


\* request r is suspended at `await fetch`
Suspended(r) == \E p \in pending : p.rid = r

\* no accepted request has two responses, and one has none only while its
\* handler is suspended; every response carries one of the four statuses
AtMostOneResponse ==
  /\ Len(responses) = nextId
  /\ \A r \in 1..nextId :
       /\ responses[r] <= 1
       /\ responses[r] = 0 <=> Suspended(r)
  /\ last.op \in {"post", "ok", "notok", "rejected"} =>
       /\ last.status \in {0, 200, 401, 403, 500}
       /\ last.status = 0 <=> Suspended(last.rid)

\* every accepted request has exactly one response
AllAnswered == \A r \in 1..nextId : responses[r] = 1

\* C19: every accepted request eventually receives exactly one response, with
\* status 200, 401, 403 or 500, provided the sink eventually answers or
\* fails; no path of the handler responds twice or ends without responding.
C19_ExactlyOneResponse ==
  /\ []AtMostOneResponse
  /\ []<>AllAnswered

\* C19 witness: a request that was suspended at fetch has its one response
\* after the sink failed, while another request has been answered 401.
C19_Witness ==
  /\ last.op \in {"notok", "rejected"} /\ last.status = 500
  /\ responses[last.rid] = 1
  /\ \E r \in 1..nextId : r # last.rid /\ responses[r] = 1

====
